---- MODULE Spec2Model ----
(***************************************************************************)
(* deptree: the edge-list parser, the tree builder, the description        *)
(* enricher and the two presenters of main.go, as a state machine.         *)
(*                                                                         *)
(* Go strings are modelled as sequences of one-character strings, so that  *)
(* strings.Fields, strings.Split, strings.HasPrefix, strings.Contains and  *)
(* sort.Strings are computed character by character.                       *)
(***************************************************************************)
EXTENDS Integers, Sequences, FiniteSets, TLC

VARIABLES
    pc,                \* position of the running function
    lines,             \* the lines bufio.Scanner yields from the `go mod graph` output
    lineNo,            \* number of lines scanned so far
    deps,              \* map[string][]string: identifier -> list of dependencies
    requestedPackage,  \* the -package argument
    exportMode,        \* the -export flag
    fetchDesc,         \* the -desc flag
    api,               \* the metadata API: <<owner, repo>> -> its response
    rootModule,        \* buildDependencyTree's rootModule
    nodes,             \* the heap of *Node: index -> [Name, Description, Children]
    visited,           \* buildTree's visited map, as the set of keys mapped to true
    stack,             \* the call stack of buildTree, innermost call last
    tree,              \* the *Node returned by buildDependencyTree (0: none yet)
    modules,           \* fetchDescriptions' modules map: identifier -> *Node
    cstack,            \* the call stack of collectModules, innermost call last
    tasks,             \* the goroutines launched: identifier -> position and result
    wg,                \* the sync.WaitGroup counter
    mu,                \* the goroutine holding the sync.Mutex (<<>> when unlocked)
    depList,           \* printExport's depList
    descriptions,      \* printExport's descriptions map
    lookups,           \* the calls of fetchGitHubDescription made: identifier -> count
    output             \* the lines printed to standard output

vars == <<pc, lines, lineNo, deps, requestedPackage, exportMode, fetchDesc, api,
          rootModule, nodes, visited, stack, tree, modules, cstack, tasks,
          wg, mu, depList, descriptions, lookups, output>>

parseVars == <<lines, lineNo>>
flagVars  == <<requestedPackage, exportMode, fetchDesc, api>>
treeVars  == <<rootModule, nodes, visited, stack, tree>>
fetchVars == <<modules, cstack, tasks, wg, mu, depList, descriptions, lookups>>

----------------------------------------------------------------------------
(* Strings *)

\* The byte value of each character the model's strings use.
Code ==
    [c \in {" ", "\t", "(", ")", "-", ".", "/", "1", "2", "@"} |->
        CASE c = "\t" -> 9  [] c = " " -> 32 [] c = "(" -> 40 [] c = ")" -> 41
          [] c = "-" -> 45  [] c = "." -> 46 [] c = "/" -> 47 [] c = "1" -> 49
          [] c = "2" -> 50  [] c = "@" -> 64]
    @@
    [c \in {"a", "b", "c", "e", "g", "h", "i", "l", "m", "n", "o", "p", "t", "u"} |->
        CASE c = "a" -> 97  [] c = "b" -> 98  [] c = "c" -> 99  [] c = "e" -> 101
          [] c = "g" -> 103 [] c = "h" -> 104 [] c = "i" -> 105 [] c = "l" -> 108
          [] c = "m" -> 109 [] c = "n" -> 110 [] c = "o" -> 111 [] c = "p" -> 112
          [] c = "t" -> 116 [] c = "u" -> 117]

\* unicode.IsSpace on the characters of the model.
IsSpace(c) == c \in {" ", "\t"}

\* strings.HasPrefix(s, prefix)
HasPrefix(s, prefix) ==
    /\ Len(prefix) <= Len(s)
    /\ SubSeq(s, 1, Len(prefix)) = prefix

\* strings.Contains(s, "@")
ContainsAt(s) == \E i \in 1..Len(s) : s[i] = "@"

\* strings.Split(s, "@")[0]: the part of s before its first "@"
RECURSIVE BeforeAt(_)
BeforeAt(s) ==
    IF s = <<>> \/ Head(s) = "@" THEN <<>>
    ELSE <<Head(s)>> \o BeforeAt(Tail(s))

\* s < t as Go compares strings: byte-wise, a proper prefix first
RECURSIVE StrLess(_, _)
StrLess(s, t) ==
    IF t = <<>> THEN FALSE
    ELSE IF s = <<>> THEN TRUE
    ELSE IF Code[Head(s)] # Code[Head(t)] THEN Code[Head(s)] < Code[Head(t)]
    ELSE StrLess(Tail(s), Tail(t))

\* Insertion of x into the ascending list l, before the first larger element
RECURSIVE SortInsert(_, _)
SortInsert(l, x) ==
    IF l = <<>> THEN <<x>>
    ELSE IF StrLess(x, Head(l)) THEN <<x>> \o l
    ELSE <<Head(l)>> \o SortInsert(Tail(l), x)

\* sort.Strings(l)
RECURSIVE SortStrings(_)
SortStrings(l) ==
    IF l = <<>> THEN <<>>
    ELSE SortInsert(SortStrings(Tail(l)), Head(l))

Range(f) == {f[x] : x \in DOMAIN f}

\* All the orders in which a Go map whose keys are S may be iterated
Orders(S) ==
    {o \in [1..Cardinality(S) -> S] : Range(o) = S}

----------------------------------------------------------------------------
(* 4.1 Edge list parser: getModuleDependencies *)

\* strings.Fields(s), scanning s from position i with the field under
\* construction cur and the fields found so far acc
RECURSIVE FieldsFrom(_, _, _, _)
FieldsFrom(s, i, cur, acc) ==
    IF i > Len(s) THEN (IF cur = <<>> THEN acc ELSE Append(acc, cur))
    ELSE IF IsSpace(s[i])
         THEN FieldsFrom(s, i + 1, <<>>, IF cur = <<>> THEN acc ELSE Append(acc, cur))
         ELSE FieldsFrom(s, i + 1, Append(cur, s[i]), acc)

Fields(s) == FieldsFrom(s, 1, <<>>, <<>>)

\* A mutant of IsEdgeLine: lines with more than two tokens are accepted too
IsEdgeLineAtLeast(parts) == Len(parts) >= 2

\* len(parts) == 2
IsEdgeLine(parts) == Len(parts) = 2

\* deps[from], nil (the empty list) for a missing key
Lookup(d, k) == IF k \in DOMAIN d THEN d[k] ELSE <<>>

\* m[k] on a map of counters, zero for a missing key
Lookup0(m, k) == IF k \in DOMAIN m THEN m[k] ELSE 0

\* deps[from] = append(deps[from], to)
AppendEdge(d, from, to) ==
    [k \in DOMAIN d \cup {from} |->
        IF k = from THEN Append(Lookup(d, from), to) ELSE d[k]]

\* The body of the scanner loop for one line
ScanOne(d, line) ==
    LET parts == Fields(line) IN
    IF IsEdgeLine(parts) THEN AppendEdge(d, parts[1], parts[2]) ELSE d

\* The empty map
EmptyMap == [k \in {} |-> <<>>]

\* No repository is known to the metadata API
NoApi == [k \in {} |-> <<>>]

\* One turn of the scanner loop: the next line is split and, when it has
\* two fields, appended to the mapping
ScanLine ==
    /\ pc = "getModuleDependencies"
    /\ lineNo < Len(lines)
    /\ lineNo' = lineNo + 1
    /\ deps' = ScanOne(deps, lines[lineNo + 1])
    /\ UNCHANGED <<pc, lines, flagVars, treeVars, fetchVars, output>>

\* The scanner is at the end of the output: getModuleDependencies returns
ScanReturn ==
    /\ pc = "getModuleDependencies"
    /\ lineNo = Len(lines)
    /\ pc' = "checkDeps"
    /\ UNCHANGED <<parseVars, deps, flagVars, treeVars, fetchVars, output>>

----------------------------------------------------------------------------
(* 3. Data model: Node *)

NoChildren == [k \in {} |-> 0]

\* NewNode(name)
NewNode(name) == [Name |-> name, Description |-> <<>>, Children |-> NoChildren]

\* node.Children[child] = childNode, on the heap h
Attach(h, parent, child, idx) ==
    [h EXCEPT ![parent].Children =
        [k \in DOMAIN h[parent].Children \cup {child} |->
            IF k = child THEN idx ELSE h[parent].Children[k]]]

\* The nodes of the subtree of n on the heap h, n included
RECURSIVE Subtree(_, _)
Subtree(h, n) ==
    {n} \cup UNION {Subtree(h, h[n].Children[k]) : k \in DOMAIN h[n].Children}

----------------------------------------------------------------------------
(* 4.2 Tree builder: buildDependencyTree and buildTree *)

Temp == <<"t", "e", "m", "p">>

\* The most edges of an edge mapping of the model
MaxEdges == 3

\* The capacity of the heap. buildTree makes at most one Node per edge, so
\* the capacity is never reached (HeapNeverFull)
MaxNodes == MaxEdges + 2

\* A mutant of IsUnversioned: every key passes for the local module
IsUnversionedAny(from) == TRUE

\* !strings.Contains(from, "@")
IsUnversioned(from) == ~ContainsAt(from)

\* The first loop of buildDependencyTree over the keys in the order o:
\* the first key without "@", "" when there is none
RECURSIVE FirstUnversioned(_)
FirstUnversioned(o) ==
    IF o = <<>> THEN <<>>
    ELSE IF IsUnversioned(Head(o)) THEN Head(o)
    ELSE FirstUnversioned(Tail(o))

\* A mutant of IsVisited: no identifier counts as visited
IsVisitedNever(v, name) == FALSE

\* visited[node.Name]
IsVisited(v, name) == name \in v

\* A mutant of MarkVisited: the node is not marked
MarkVisitedDropped(v, name) == v

\* visited[node.Name] = true
MarkVisited(v, name) == v \cup {name}

\* A mutant of ChildExists: a repeated dependency replaces the child
ChildExistsNever(node, child) == FALSE

\* _, exists := node.Children[child]
ChildExists(node, child) == child \in DOMAIN node.Children

\* A mutant of ReRootMatches: only the first of the two prefix tests
ReRootMatchesOneWay(packageBase, childBase) == HasPrefix(packageBase, childBase)

\* strings.HasPrefix(packageBase, childBase) || strings.HasPrefix(childBase, packageBase)
ReRootMatches(packageBase, childBase) ==
    HasPrefix(packageBase, childBase) \/ HasPrefix(childBase, packageBase)

\* The loop over root.Children in the order o: the first child that matches
\* the requested package, 0 when none does
RECURSIVE FirstMatch(_, _, _)
FirstMatch(o, children, packageBase) ==
    IF o = <<>> THEN 0
    ELSE IF ReRootMatches(packageBase, BeforeAt(Head(o))) THEN children[Head(o)]
    ELSE FirstMatch(Tail(o), children, packageBase)

Top == stack[Len(stack)]
Pop(st) == SubSeq(st, 1, Len(st) - 1)

\* The position after buildTree or one of its calls returned
AfterReturn(st) == IF Len(st) = 1 THEN "reroot" ELSE "buildTree"

\* buildDependencyTree up to the call of buildTree on the new root
SelectRoot ==
    /\ pc = "buildDependencyTree"
    /\ \E o1 \in Orders(DOMAIN deps), o2 \in Orders(DOMAIN deps) :
          LET first == FirstUnversioned(o1) IN
          rootModule' = IF first = <<>> THEN o2[1] ELSE first
    /\ nodes' = <<NewNode(rootModule')>>
    /\ visited' = {}
    /\ stack' = <<[node |-> 1, pos |-> 0]>>
    /\ pc' = "buildTree"
    /\ UNCHANGED <<parseVars, deps, flagVars, tree, fetchVars, output>>

\* buildTree, from its entry to the start of the loop
BuildTreeEnter ==
    /\ pc = "buildTree"
    /\ Top.pos = 0
    /\ IF IsVisited(visited, nodes[Top.node].Name)
       THEN /\ stack' = Pop(stack)
            /\ pc' = AfterReturn(stack)
            /\ UNCHANGED visited
       ELSE /\ visited' = MarkVisited(visited, nodes[Top.node].Name)
            /\ stack' = [stack EXCEPT ![Len(stack)].pos = 1]
            /\ UNCHANGED pc
    /\ UNCHANGED <<parseVars, deps, flagVars, rootModule, nodes, tree,
                   fetchVars, output>>


\* buildTree, one iteration of the loop over deps[node.Name]
BuildTreeLoop ==
    /\ pc = "buildTree"
    /\ Top.pos >= 1
    /\ LET node == Top.node
           children == Lookup(deps, nodes[node].Name)
       IN
       /\ Top.pos <= Len(children)
       /\ LET child == children[Top.pos]
              childNode == Len(nodes) + 1
          IN
          IF ~ChildExists(nodes[node], child)
          THEN /\ Len(nodes) < MaxNodes
               /\ nodes' = Attach(Append(nodes, NewNode(child)), node, child, childNode)
               /\ stack' = Append([stack EXCEPT ![Len(stack)].pos = @ + 1],
                                  [node |-> childNode, pos |-> 0])
          ELSE /\ stack' = [stack EXCEPT ![Len(stack)].pos = @ + 1]
               /\ UNCHANGED nodes
    /\ UNCHANGED <<pc, parseVars, deps, flagVars, rootModule, visited, tree,
                   fetchVars, output>>

\* buildTree, the return after the loop
BuildTreeReturn ==
    /\ pc = "buildTree"
    /\ Top.pos > Len(Lookup(deps, nodes[Top.node].Name))
    /\ stack' = Pop(stack)
    /\ pc' = AfterReturn(stack)
    /\ UNCHANGED <<parseVars, deps, flagVars, rootModule, nodes, visited, tree,
                   fetchVars, output>>

\* The position of run after buildDependencyTree returned
AfterBuild == IF fetchDesc THEN "fetchDescriptions" ELSE "present"

\* buildDependencyTree after buildTree: the re-rooting and the return
ReRoot ==
    /\ pc = "reroot"
    /\ IF rootModule = Temp /\ requestedPackage # <<>>
       THEN \E o \in Orders(DOMAIN nodes[1].Children) :
               LET match == FirstMatch(o, nodes[1].Children, BeforeAt(requestedPackage))
               IN  tree' = IF match # 0 THEN match ELSE 1
       ELSE tree' = 1
    /\ pc' = AfterBuild
    /\ UNCHANGED <<parseVars, deps, flagVars, rootModule, nodes, visited, stack,
                   fetchVars, output>>

----------------------------------------------------------------------------
(* 4.3 Description enricher: fetchGitHubDescription and fetchDescriptions *)

GitHubPrefix == <<"g", "i", "t", "h", "u", "b", ".", "c", "o", "m", "/">>

\* strings.Split(s, sep) for a separator of one character, scanning s with
\* the part under construction cur and the parts found so far acc
RECURSIVE SplitFrom(_, _, _, _)
SplitFrom(s, sep, cur, acc) ==
    IF s = <<>> THEN Append(acc, cur)
    ELSE IF Head(s) = sep THEN SplitFrom(Tail(s), sep, <<>>, Append(acc, cur))
    ELSE SplitFrom(Tail(s), sep, Append(cur, Head(s)), acc)

SplitOn(s, sep) == SplitFrom(s, sep, <<>>, <<>>)

\* strings.TrimPrefix(s, prefix)
TrimPrefix(s, prefix) ==
    IF HasPrefix(s, prefix) THEN SubSeq(s, Len(prefix) + 1, Len(s)) ELSE s

NotGitHub == [owner |-> <<>>, repo |-> <<>>, ok |-> FALSE]

\* extractGitHubRepo(modulePath)
ExtractGitHubRepo(modulePath) ==
    LET path == SplitOn(modulePath, "@")[1] IN
    IF ~HasPrefix(path, GitHubPrefix) THEN NotGitHub
    ELSE LET pathParts == SplitOn(TrimPrefix(path, GitHubPrefix), "/") IN
         IF Len(pathParts) < 2 THEN NotGitHub
         ELSE [owner |-> pathParts[1], repo |-> pathParts[2], ok |-> TRUE]

\* http.StatusOK
StatusOK == 200

\* The results of fetchGitHubDescription: a description and a nil error
\* (the empty message), or no description and an error message
Fetched(desc)  == [desc |-> desc, err |-> <<>>]
Failed(message) == [desc |-> <<>>, err |-> message]

\* fetchGitHubDescription(modulePath, token) against the metadata API a.
\* A response is [sent, cause, status, decodes, description]: whether
\* client.Do returned a response, its error otherwise, the status code,
\* whether the body decodes as JSON, and the description field
FetchGitHubDescription(modulePath, a) ==
    LET r == ExtractGitHubRepo(modulePath) IN
    IF ~r.ok THEN Failed(<<"not a GitHub module">>)
    ELSE LET resp == a[<<r.owner, r.repo>>] IN
         IF ~resp.sent
         THEN Failed(<<"failed to fetch from GitHub API: ">> \o resp.cause)
         ELSE IF resp.status # StatusOK
         THEN Failed(<<"GitHub API returned status ", ToString(resp.status)>>)
         ELSE IF ~resp.decodes
         THEN Failed(<<"failed to parse response: ">> \o resp.cause)
         ELSE IF resp.description = <<>>
         THEN Failed(<<"no description set">>)
         ELSE Fetched(resp.description)

\* A mutant of DescriptionOf: the error is dropped and the description kept
DescriptionOfNoError(result) == result.desc

\* What a fetch task stores: fmt.Sprintf("(%s)", err.Error()) on an error,
\* the description otherwise
DescriptionOf(result) ==
    IF result.err # <<>> THEN <<"(">> \o result.err \o <<")">>
    ELSE result.desc

\* m[k] = v on a map
MapPut(m, k, v) == [x \in DOMAIN m \cup {k} |-> IF x = k THEN v ELSE m[x]]

\* fetchDescriptions up to the call collectModules(root), and the entry of
\* that call: the root is filed under its identifier
FetchStart ==
    /\ pc = "fetchDescriptions"
    /\ modules' = MapPut([k \in {} |-> 0], nodes[tree].Name, tree)
    /\ cstack' = <<[node |-> tree, todo |-> DOMAIN nodes[tree].Children]>>
    /\ pc' = "collectModules"
    /\ UNCHANGED <<parseVars, deps, flagVars, treeVars, tasks, wg, mu, depList,
                   descriptions, lookups, output>>

\* collectModules: the loop over node.Children takes its next child, in
\* any order, and calls collectModules on it, which files the child
CollectChild ==
    /\ pc = "collectModules"
    /\ \E k \in cstack[Len(cstack)].todo :
          LET child == nodes[cstack[Len(cstack)].node].Children[k] IN
          /\ modules' = MapPut(modules, nodes[child].Name, child)
          /\ cstack' = Append([cstack EXCEPT ![Len(cstack)].todo = @ \ {k}],
                              [node |-> child, todo |-> DOMAIN nodes[child].Children])
    /\ UNCHANGED <<pc, parseVars, deps, flagVars, treeVars, tasks, wg, mu, depList,
                   descriptions, lookups, output>>

\* collectModules: the loop is over, the call returns
CollectReturn ==
    /\ pc = "collectModules"
    /\ cstack[Len(cstack)].todo = {}
    /\ cstack' = SubSeq(cstack, 1, Len(cstack) - 1)
    /\ pc' = IF Len(cstack) = 1 THEN "fetchLaunch" ELSE "collectModules"
    /\ UNCHANGED <<parseVars, deps, flagVars, treeVars, modules, tasks, wg, mu,
                   depList, descriptions, lookups, output>>

\* A goroutine at its start; n is the *Node it was given (0 in printExport)
NewTask(n) == [pos |-> "fetch", n |-> n, result |-> Fetched(<<>>)]

\* fetchDescriptions: one turn of the loop over modules, in any order:
\* wg.Add(1) and the go statement
FetchLaunch ==
    /\ pc = "fetchLaunch"
    /\ \E id \in DOMAIN modules :
          /\ <<"node", id>> \notin DOMAIN tasks
          /\ tasks' = MapPut(tasks, <<"node", id>>, NewTask(modules[id]))
    /\ wg' = wg + 1
    /\ UNCHANGED <<pc, parseVars, deps, flagVars, treeVars, modules, cstack, mu,
                   depList, descriptions, lookups, output>>

\* A mutant of WaitReturns: Wait does not wait
WaitReturnsAtOnce(counter) == TRUE

\* wg.Wait() returns when the counter is zero
WaitReturns(counter) == counter = 0

\* fetchDescriptions: the loop is over and wg.Wait() returns
FetchWait ==
    /\ pc = "fetchLaunch"
    /\ \A id \in DOMAIN modules : <<"node", id>> \in DOMAIN tasks
    /\ WaitReturns(wg)
    /\ pc' = "present"
    /\ UNCHANGED <<parseVars, deps, flagVars, treeVars, fetchVars, output>>

\* A goroutine calls fetchGitHubDescription
TaskFetch ==
    \E k \in DOMAIN tasks :
        /\ tasks[k].pos = "fetch"
        /\ tasks' = [tasks EXCEPT ![k].pos = "lock",
                                  ![k].result = FetchGitHubDescription(k[2], api)]
        /\ lookups' = MapPut(lookups, k[2], Lookup0(lookups, k[2]) + 1)
        /\ UNCHANGED <<pc, parseVars, deps, flagVars, treeVars, modules, cstack, wg,
                       mu, depList, descriptions, output>>

\* A goroutine takes the mutex: mu.Lock()
TaskLock ==
    \E k \in DOMAIN tasks :
        /\ tasks[k].pos = "lock"
        /\ mu = <<>>
        /\ mu' = k
        /\ tasks' = [tasks EXCEPT ![k].pos = "write"]
        /\ UNCHANGED <<pc, parseVars, deps, flagVars, treeVars, modules, cstack, wg,
                       depList, descriptions, lookups, output>>

\* A mutant of SetDescription: every Node carrying the identifier of n gets
\* the description
SetDescriptionOfName(h, n, d) ==
    [m \in 1..Len(h) |-> IF h[m].Name = h[n].Name
                         THEN [h[m] EXCEPT !.Description = d] ELSE h[m]]

\* n.Description = d, through the pointer the goroutine was given
SetDescription(h, n, d) == [h EXCEPT ![n].Description = d]

\* A goroutine stores its result, in the Node it was given or in
\* printExport's descriptions, and releases the mutex: mu.Unlock()
TaskWrite ==
    \E k \in DOMAIN tasks :
        /\ tasks[k].pos = "write"
        /\ IF k[1] = "node"
           THEN /\ nodes' = SetDescription(nodes, tasks[k].n,
                                            DescriptionOf(tasks[k].result))
                /\ UNCHANGED descriptions
           ELSE /\ descriptions' = MapPut(descriptions, k[2],
                                          DescriptionOf(tasks[k].result))
                /\ UNCHANGED nodes
        /\ mu' = <<>>
        /\ tasks' = [tasks EXCEPT ![k].pos = "return"]
        /\ UNCHANGED <<pc, parseVars, deps, flagVars, rootModule, visited, stack,
                       tree, modules, cstack, wg, depList, lookups, output>>

\* A goroutine returns: the deferred wg.Done()
TaskDone ==
    \E k \in DOMAIN tasks :
        /\ tasks[k].pos = "return"
        /\ wg' = wg - 1
        /\ tasks' = [tasks EXCEPT ![k].pos = "finished"]
        /\ UNCHANGED <<pc, parseVars, deps, flagVars, treeVars, modules, cstack, mu,
                       depList, descriptions, lookups, output>>

----------------------------------------------------------------------------
(* 4.4 Presenters: printTree and printNode *)

\* The box-drawing characters, each one character named by its code point
ConnectorLast == <<"U+2514", "U+2500", "U+2500", " ">>
ConnectorMid  == <<"U+251C", "U+2500", "U+2500", " ">>
IndentLast    == <<" ", " ", " ", " ">>
IndentMid     == <<"U+2502", " ", " ", " ">>
DescSep       == <<" ", "-", " ">>

\* The keys of a map in one of the orders a range loop may yield them; the
\* presenter sorts them before use (SortIgnoresMapOrder)
KeysOf(m) == CHOOSE o \in Orders(DOMAIN m) : TRUE

\* The text of one printed line: "%s%s%s - %s\n" when the description is
\* shown and not empty, "%s%s%s\n" otherwise
FormatLine(prefix, connector, node, showDesc) ==
    IF showDesc /\ node.Description # <<>>
    THEN prefix \o connector \o node.Name \o DescSep \o node.Description
    ELSE prefix \o connector \o node.Name

\* A mutant of IsLast: the last sibling is taken for the first
IsLastFirst(i, childCount) == i = 0

\* isLast := i == childCount-1, for the 0-based index i
IsLast(i, childCount) == i = childCount - 1

\* sort.Strings(childNames)
SortedNames(childNames) == SortStrings(childNames)

\* printNode(node, prefix, showDesc) on the heap h: the lines printed, from
\* the child of position i (1-based) of the sorted names on
RECURSIVE PrintNodeFrom(_, _, _, _, _, _)
PrintNodeFrom(h, n, childNames, i, prefix, showDesc) ==
    IF i > Len(childNames) THEN <<>>
    ELSE LET child == h[n].Children[childNames[i]]
             isLast == IsLast(i - 1, Cardinality(DOMAIN h[n].Children))
             connector == IF isLast THEN ConnectorLast ELSE ConnectorMid
             childPrefix == prefix \o (IF isLast THEN IndentLast ELSE IndentMid)
         IN  <<FormatLine(prefix, connector, h[child], showDesc)>>
             \o PrintNodeFrom(h, child, SortedNames(KeysOf(h[child].Children)), 1,
                              childPrefix, showDesc)
             \o PrintNodeFrom(h, n, childNames, i + 1, prefix, showDesc)

PrintNode(h, n, prefix, showDesc) ==
    PrintNodeFrom(h, n, SortedNames(KeysOf(h[n].Children)), 1, prefix, showDesc)

\* printTree(node, showDesc): the lines printed
PrintTreeLines(h, n, showDesc) ==
    <<FormatLine(<<>>, <<>>, h[n], showDesc)>> \o PrintNode(h, n, <<>>, showDesc)

\* run: printTree(tree, fetchDesc)
PrintTree ==
    /\ pc = "present"
    /\ ~exportMode
    /\ output' = PrintTreeLines(nodes, tree, fetchDesc)
    /\ pc' = "done"
    /\ UNCHANGED <<parseVars, deps, flagVars, treeVars, fetchVars>>

----------------------------------------------------------------------------
(* 4.4 Presenters: printExport *)

\* A mutant of IsToolchainDep: only the "go@" marker is recognised
IsToolchainDepGoOnly(dep) == HasPrefix(dep, <<"g", "o", "@">>)

\* isToolchainDep(dep)
IsToolchainDep(dep) ==
    \/ HasPrefix(dep, <<"g", "o", "@">>)
    \/ HasPrefix(dep, <<"t", "o", "o", "l", "c", "h", "a", "i", "n", "@">>)

\* The keys of uniqueDeps after the loop over deps
UniqueDeps(d) ==
    {from \in DOMAIN d : from # Temp /\ ~IsToolchainDep(from)}
    \cup {to \in UNION {Range(d[from]) : from \in DOMAIN d} : ~IsToolchainDep(to)}

\* A mutant of SortDepList: the list is left in the map's order
SortDepListNot(l) == l

\* sort.Strings(depList)
SortDepList(l) == SortStrings(l)

\* printExport(deps, false, token): the identifiers are collected, listed
\* in the order the map yields them, sorted and printed
PrintExport ==
    /\ pc = "present"
    /\ exportMode
    /\ ~fetchDesc
    /\ \E o \in Orders(UniqueDeps(deps)) : depList' = SortDepList(o)
    /\ output' = depList'
    /\ pc' = "done"
    /\ UNCHANGED <<parseVars, deps, flagVars, treeVars, modules, cstack, tasks, wg,
                   mu, descriptions, lookups>>

\* printExport(deps, true, token) up to the loop that starts the goroutines
ExportStart ==
    /\ pc = "present"
    /\ exportMode
    /\ fetchDesc
    /\ \E o \in Orders(UniqueDeps(deps)) : depList' = SortDepList(o)
    /\ descriptions' = [k \in {} |-> <<>>]
    /\ pc' = "exportLaunch"
    /\ UNCHANGED <<parseVars, deps, flagVars, treeVars, modules, cstack, tasks, wg,
                   mu, lookups, output>>

\* The export goroutines started so far
ExportTasks == {k \in DOMAIN tasks : k[1] = "export"}

\* printExport: one turn of the loop over depList: wg.Add(1) and the go
\* statement
ExportLaunch ==
    /\ pc = "exportLaunch"
    /\ Cardinality(ExportTasks) < Len(depList)
    /\ tasks' = MapPut(tasks, <<"export", depList[Cardinality(ExportTasks) + 1]>>,
                       NewTask(0))
    /\ wg' = wg + 1
    /\ UNCHANGED <<pc, parseVars, deps, flagVars, treeVars, modules, cstack, mu,
                   depList, descriptions, lookups, output>>

\* The line printExport prints for dep
ExportLine(dep, descs) ==
    IF dep \in DOMAIN descs THEN dep \o DescSep \o descs[dep] ELSE dep

\* printExport: the loop is over, wg.Wait() returns and the lines are
\* printed
ExportWait ==
    /\ pc = "exportLaunch"
    /\ Cardinality(ExportTasks) = Len(depList)
    /\ WaitReturns(wg)
    /\ output' = [i \in 1..Len(depList) |-> ExportLine(depList[i], descriptions)]
    /\ pc' = "done"
    /\ UNCHANGED <<parseVars, deps, flagVars, treeVars, fetchVars>>

\* run: no dependencies, or buildDependencyTree is called
CheckDeps ==
    /\ pc = "checkDeps"
    /\ IF DOMAIN deps = {}
       THEN /\ output' = <<<<"No dependencies found">>>>
            /\ pc' = "done"
       ELSE /\ pc' = "buildDependencyTree"
            /\ UNCHANGED output
    /\ UNCHANGED <<parseVars, deps, flagVars, treeVars, fetchVars>>

----------------------------------------------------------------------------
(* The tree builder and the tree presenter on every edge mapping of up to  *)
(* MaxEdges edges over TreeIds                                             *)

TreeIds == {Temp, <<"a">>, <<"a", "@", "1">>, <<"a", "b", "@", "1">>}

TreeRequests == {<<>>, <<"a", "@", "2">>, <<"a", "b">>, <<"b">>, Temp}

\* The lists of at most n edges over the identifiers ids
EdgeLists(ids, n) == UNION {[1..k -> ids \X ids] : k \in 0..n}

\* The edge mapping getModuleDependencies builds from the edges es
RECURSIVE DepsOf(_, _)
DepsOf(d, es) ==
    IF es = <<>> THEN d
    ELSE DepsOf(AppendEdge(d, Head(es)[1], Head(es)[2]), Tail(es))

\* The edge mappings of at most n edges over ids, none of them empty
EdgeMappings(ids, n) == {DepsOf(EmptyMap, es) : es \in EdgeLists(ids, n)} \ {EmptyMap}

NoFetchState ==
    /\ modules = [k \in {} |-> 0]
    /\ cstack = <<>>
    /\ tasks = [k \in {} |-> 0]
    /\ wg = 0
    /\ mu = <<>>
    /\ depList = <<>>
    /\ descriptions = [k \in {} |-> <<>>]
    /\ lookups = [k \in {} |-> 0]

NoTreeState ==
    /\ rootModule = <<>>
    /\ nodes = <<>>
    /\ visited = {}
    /\ stack = <<>>
    /\ tree = 0

InitTree ==
    /\ pc = "buildDependencyTree"
    /\ lines = <<>>
    /\ lineNo = 0
    /\ deps \in EdgeMappings(TreeIds, MaxEdges)
    /\ requestedPackage \in TreeRequests
    /\ exportMode = FALSE
    /\ fetchDesc = FALSE
    /\ api = NoApi
    /\ NoTreeState
    /\ NoFetchState
    /\ output = <<>>

NextTree ==
    \/ SelectRoot
    \/ BuildTreeEnter
    \/ BuildTreeLoop
    \/ BuildTreeReturn
    \/ ReRoot
    \/ PrintTree

SpecTree == InitTree /\ [][NextTree]_vars

BuildIds == {Temp, <<"a">>, <<"a", "@", "1">>}

\* The tree builder without a requested package
InitBuild ==
    /\ pc = "buildDependencyTree"
    /\ lines = <<>>
    /\ lineNo = 0
    /\ deps \in EdgeMappings(BuildIds, MaxEdges)
    /\ requestedPackage = <<>>
    /\ exportMode = FALSE
    /\ fetchDesc = FALSE
    /\ api = NoApi
    /\ NoTreeState
    /\ NoFetchState
    /\ output = <<>>

\* run is one sequential thread until the enrichment: a step that can be
\* taken is taken
FairSpecBuild == InitBuild /\ [][NextTree]_vars /\ WF_vars(NextTree)


\* The heap capacity is never what stops buildTree
HeapNeverFull == Len(nodes) < MaxNodes

\* sort.Strings yields the same list whatever the order in which the range
\* loop of printNode yielded the keys of node.Children
SortIgnoresMapOrder ==
    \A n \in 1..Len(nodes) :
        \A o \in Orders(DOMAIN nodes[n].Children) :
            SortedNames(o) = SortedNames(KeysOf(nodes[n].Children))

----------------------------------------------------------------------------
(* Properties of the tree builder *)

\* The identifiers reachable in the edge mapping d from the identifiers S
RECURSIVE ReachableFrom(_, _)
ReachableFrom(d, S) ==
    LET more == S \cup UNION {Range(Lookup(d, x)) : x \in S}
    IN  IF more = S THEN S ELSE ReachableFrom(d, more)

\* d has a cycle through identifiers of S (a self-loop is one)
HasCycleIn(d, S) ==
    \E x \in S : x \in ReachableFrom(d, Range(Lookup(d, x)))

BuildTreeReturned == pc \notin {"buildDependencyTree", "buildTree"}

\* C1: from every edge mapping, cyclic ones and self-loops included, and
\* every root, buildTree started with an empty visited set returns after
\* finitely many calls.
C1_BuildTreeTerminates == <>(pc = "reroot" /\ stack = <<>>)

\* buildTree has returned on a mapping in which the root reaches a cycle
C1_Witness ==
    /\ pc = "reroot"
    /\ stack = <<>>
    /\ HasCycleIn(deps, ReachableFrom(deps, {rootModule}))

\* The nodes of the built tree that carry the identifier id
Instances(id) == {n \in Subtree(nodes, 1) : nodes[n].Name = id}

Min(S) == CHOOSE x \in S : \A y \in S : x <= y

\* C2: once buildTree has returned, every identifier reachable from the
\* root is visited; the first Node made for it has exactly one child per
\* distinct identifier of its dependency list, each child carrying the
\* identifier it is filed under; every other Node of the tree carrying the
\* identifier has no children.
C2_ExpandedExactlyOnce ==
    BuildTreeReturned =>
        \A id \in ReachableFrom(deps, {nodes[1].Name}) :
            /\ id \in visited
            /\ Instances(id) # {}
            /\ LET first == Min(Instances(id)) IN
               /\ DOMAIN nodes[first].Children = Range(Lookup(deps, id))
               /\ \A k \in DOMAIN nodes[first].Children :
                     nodes[nodes[first].Children[k]].Name = k
               /\ \A n \in Instances(id) \ {first} :
                     DOMAIN nodes[n].Children = {}

\* The tree is built and some identifier with dependencies occurs twice in
\* it: once expanded, once as a leaf
C2_Witness ==
    /\ BuildTreeReturned
    /\ \E id \in DOMAIN deps :
          /\ Cardinality(Instances(id)) >= 2
          /\ DOMAIN nodes[Min(Instances(id))].Children # {}

\* p is a prefix of s
IsPrefixOf(p, s) == \E n \in 0..Len(s) : p = SubSeq(s, 1, n)

\* s without its version: the characters before the first "@"
Stripped(s) ==
    LET ats == {i \in 1..Len(s) : s[i] = "@"}
    IN  IF ats = {} THEN s ELSE SubSeq(s, 1, Min(ats) - 1)

\* The children of the placeholder root that match the requested package
MatchingChildren ==
    {k \in DOMAIN nodes[1].Children :
        \/ IsPrefixOf(Stripped(k), Stripped(requestedPackage))
        \/ IsPrefixOf(Stripped(requestedPackage), Stripped(k))}

ReRootCase ==
    /\ tree # 0
    /\ rootModule = Temp
    /\ requestedPackage # <<>>

\* C3 as stated: in the re-rooting case the returned root is a matching
\* child whose Name is not "temp" when a child matches, and the "temp" root
\* itself when none does.
C3_Original ==
    ReRootCase =>
        IF MatchingChildren # {}
        THEN /\ tree \in {nodes[1].Children[k] : k \in MatchingChildren}
             /\ nodes[tree].Name # Temp
        ELSE tree = 1

\* C3, amended: in the re-rooting case the returned root is a matching
\* child when a child matches, and its Name is not "temp" unless "temp" is
\* itself one of the matching children; when no child matches the returned
\* root is the "temp" root itself.
C3_ReRootReturnsMatch ==
    ReRootCase =>
        IF MatchingChildren # {}
        THEN /\ tree \in {nodes[1].Children[k] : k \in MatchingChildren}
             /\ (Temp \notin MatchingChildren => nodes[tree].Name # Temp)
        ELSE tree = 1


\* The re-rooting returned a child of the placeholder although another
\* child matched the request as well
C3_Witness ==
    /\ ReRootCase
    /\ Cardinality(MatchingChildren) >= 2
    /\ tree # 1
    /\ pc = "present"

HasVersion(s) == "@" \in Range(s)

\* C4: the root chosen by buildDependencyTree is a key of the edge mapping,
\* and a key without "@" whenever the mapping has one, whatever the order
\* in which the map is iterated.
C4_RootIsUnversionedKey ==
    pc # "buildDependencyTree" =>
        /\ rootModule \in DOMAIN deps
        /\ (\E k \in DOMAIN deps : ~HasVersion(k)) => ~HasVersion(rootModule)

\* A root was chosen from a mapping with versioned and unversioned keys
C4_Witness ==
    /\ pc = "buildTree"
    /\ \E k \in DOMAIN deps : HasVersion(k)
    /\ Cardinality({k \in DOMAIN deps : ~HasVersion(k)}) >= 2
    /\ ~HasVersion(rootModule)

\* The Node instances on the heap that carry the identifier id
HeapInstances(id) == {n \in 1..Len(nodes) : nodes[n].Name = id}

\* C11 as stated: no second Node is created for an identifier that has been
\* marked visited, so a visited identifier is carried by at most one Node.
C11_Original ==
    \A id \in visited : Cardinality(HeapInstances(id)) <= 1

\* C11, amended: at every point of the construction only the first Node
\* made for an identifier has children, and an identifier that is not yet
\* marked visited is carried by at most one Node; the Nodes made for an
\* identifier after it was marked visited are leaves.
C11_OnlyFirstInstanceExpands ==
    /\ \A n \in 1..Len(nodes) :
          DOMAIN nodes[n].Children # {} => n = Min(HeapInstances(nodes[n].Name))
    /\ \A n \in 1..Len(nodes) :
          nodes[n].Name \notin visited =>
              Cardinality(HeapInstances(nodes[n].Name)) = 1

\* buildTree is still running and a visited identifier is carried by an
\* expanded Node and by a later Node as well
C11_Witness ==
    /\ pc = "buildTree"
    /\ \E id \in visited :
          /\ Cardinality(HeapInstances(id)) >= 2
          /\ DOMAIN nodes[Min(HeapInstances(id))].Children # {}

ScratchIds == {Temp, <<"a", "@", "1">>, <<"b", "@", "1">>, <<"c", "@", "1">>}

\* The edge mappings of go mod graph run in a scratch module: "temp" has
\* dependencies and is itself nobody's dependency
ScratchMappings ==
    {d \in EdgeMappings(ScratchIds, MaxEdges + 1) :
        /\ Temp \in DOMAIN d
        /\ \A k \in DOMAIN d : Temp \notin Range(d[k])}

\* buildDependencyTree on the graph of a scratch module
InitReRoot ==
    /\ pc = "buildDependencyTree"
    /\ lines = <<>>
    /\ lineNo = 0
    /\ deps \in ScratchMappings
    /\ requestedPackage \in TreeRequests
    /\ exportMode = FALSE
    /\ fetchDesc = FALSE
    /\ api = NoApi
    /\ NoTreeState
    /\ NoFetchState
    /\ output = <<>>

SpecReRoot == InitReRoot /\ [][NextTree]_vars

\* C14: the root returned by buildDependencyTree is an expanded node: it
\* has exactly one child for each distinct identifier of deps[root.Name],
\* each carrying the identifier it is filed under, also after re-rooting.
C14_ReturnedRootExpanded ==
    tree # 0 =>
        /\ DOMAIN nodes[tree].Children = Range(Lookup(deps, nodes[tree].Name))
        /\ \A k \in DOMAIN nodes[tree].Children :
              nodes[nodes[tree].Children[k]].Name = k

----------------------------------------------------------------------------
(* Properties of the tree presenter *)

\* The paths of the tree below n: the lists of identifiers leading from n
\* to each node, the empty path for n itself
RECURSIVE Paths(_, _)
Paths(h, n) ==
    {<<>>} \cup UNION {{<<k>> \o p : p \in Paths(h, h[n].Children[k])} :
                        k \in DOMAIN h[n].Children}

\* The node the path p leads to from n
RECURSIVE NodeAt(_, _, _)
NodeAt(h, n, p) ==
    IF p = <<>> THEN n ELSE NodeAt(h, h[n].Children[Head(p)], Tail(p))

\* Pre-order with siblings in ascending order of identifier: a path before
\* its extensions, and otherwise by the first identifier that differs
RECURSIVE PathLess(_, _)
PathLess(p, q) ==
    IF q = <<>> THEN FALSE
    ELSE IF p = <<>> THEN TRUE
    ELSE IF Head(p) # Head(q) THEN StrLess(Head(p), Head(q))
    ELSE PathLess(Tail(p), Tail(q))

\* The node at the non-empty path p is the last of its sorted siblings
LastSibling(h, n, p) ==
    LET parent == NodeAt(h, n, SubSeq(p, 1, Len(p) - 1))
    IN  \A k \in DOMAIN h[parent].Children : ~StrLess(p[Len(p)], k)

\* The prefix inherited by the node at path p: one indentation for each of
\* its ancestors below n, from the outermost on
RECURSIVE InheritedPrefix(_, _, _, _)
InheritedPrefix(h, n, p, j) ==
    IF j >= Len(p) THEN <<>>
    ELSE (IF LastSibling(h, n, SubSeq(p, 1, j)) THEN IndentLast ELSE IndentMid)
         \o InheritedPrefix(h, n, p, j + 1)

\* The line the claim gives the node at path p
ExpectedLine(h, n, p) ==
    IF p = <<>> THEN h[n].Name
    ELSE InheritedPrefix(h, n, p, 1)
         \o (IF LastSibling(h, n, p) THEN ConnectorLast ELSE ConnectorMid)
         \o p[Len(p)]

\* C9: without descriptions printTree prints one line per Node, the root's
\* identifier first and then the nodes in pre-order with siblings in
\* ascending order of identifier; a non-root line is the inherited prefix,
\* the connector of a last or non-last sibling, and the identifier.
C9_PrintTreeLines ==
    (pc = "done" /\ ~exportMode /\ ~fetchDesc) =>
        LET P == Paths(nodes, tree) IN
        /\ Len(output) = Cardinality(Subtree(nodes, tree))
        /\ Len(output) = Cardinality(P)
        /\ \A p \in P :
              output[1 + Cardinality({q \in P : PathLess(q, p)})]
                  = ExpectedLine(nodes, tree, p)

\* A tree was printed in which a node with a child is followed by a sibling
C9_Witness ==
    /\ pc = "done"
    /\ ~exportMode
    /\ ~fetchDesc
    /\ \E p \in Paths(nodes, tree) :
          /\ Len(p) = 2
          /\ ~LastSibling(nodes, tree, SubSeq(p, 1, 1))


----------------------------------------------------------------------------
(* The parser on every list of up to MaxLines lines of RawLines            *)

\* The most lines of an output of `go mod graph` of the model
MaxLines == 3

RawLines ==
    { <<>>,
      <<" ">>,
      <<"a">>,
      <<" ", "b", "\t">>,
      <<"a", " ", "b">>,
      <<"a", " ", "a">>,
      <<"b", " ", "a">>,
      <<"a", " ", " ", "b">>,
      <<"a", "\t", "a", "b">>,
      <<" ", "a", "b", " ", "a", " ">>,
      <<"a", " ", "b", " ", "a">>,
      <<"a", " ", "b", " ", "a", " ", "b">> }

InitParse ==
    /\ pc = "getModuleDependencies"
    /\ lines \in UNION {[1..n -> RawLines] : n \in 0..MaxLines}
    /\ lineNo = 0
    /\ deps = EmptyMap
    /\ requestedPackage = <<>>
    /\ exportMode = FALSE
    /\ fetchDesc = FALSE
    /\ api = NoApi
    /\ NoTreeState
    /\ NoFetchState
    /\ output = <<>>

NextParse ==
    \/ ScanLine
    \/ ScanReturn

SpecParse == InitParse /\ [][NextParse]_vars

\* s is one token: not empty, no white space in it
IsToken(s) == s # <<>> /\ \A i \in 1..Len(s) : ~IsSpace(s[i])

\* s is white space only
IsBlank(s) == \A i \in 1..Len(s) : IsSpace(s[i])

\* The pairs <<from, to>> such that the line is exactly the two tokens from
\* and to, separated by white space, with white space allowed around them
TwoTokens(line) ==
    LET n == Len(line) IN
    { <<SubSeq(line, x[1] + 1, x[2]), SubSeq(line, x[3] + 1, x[4])>> :
        x \in { y \in (0..n) \X (0..n) \X (0..n) \X (0..n) :
                  /\ y[1] < y[2] /\ y[2] < y[3] /\ y[3] < y[4]
                  /\ IsBlank(SubSeq(line, 1, y[1]))
                  /\ IsToken(SubSeq(line, y[1] + 1, y[2]))
                  /\ IsBlank(SubSeq(line, y[2] + 1, y[3]))
                  /\ IsToken(SubSeq(line, y[3] + 1, y[4]))
                  /\ IsBlank(SubSeq(line, y[4] + 1, n)) } }

\* The `to` tokens of the two-token lines of ls whose first token is from,
\* in the order of the lines
RECURSIVE EdgesFrom(_, _)
EdgesFrom(from, ls) ==
    IF ls = <<>> THEN <<>>
    ELSE LET here == {e \in TwoTokens(Head(ls)) : e[1] = from}
         IN  (IF here = {} THEN <<>> ELSE <<(CHOOSE e \in here : TRUE)[2]>>)
             \o EdgesFrom(from, Tail(ls))

\* C10: the mapping getModuleDependencies returns has, for each key `from`,
\* exactly the `to` tokens of the lines made of the two tokens `from` and
\* `to`, in input order, duplicates kept; lines of zero, one, three or more
\* tokens add no key and no value.
C10_ParserKeepsTwoTokenLines ==
    pc = "checkDeps" =>
        /\ DOMAIN deps = {e[1] : e \in UNION {TwoTokens(lines[i]) : i \in 1..Len(lines)}}
        /\ \A from \in DOMAIN deps : deps[from] = EdgesFrom(from, lines)

\* The parser returned a key with a repeated value, from an input that has
\* a line of three tokens between the two edges
C10_Witness ==
    /\ pc = "checkDeps"
    /\ Len(lines) = 3
    /\ Len(Fields(lines[2])) >= 3
    /\ \E from \in DOMAIN deps :
          /\ Len(deps[from]) = 2
          /\ deps[from][1] = deps[from][2]


----------------------------------------------------------------------------
(* printExport without descriptions on every edge mapping of up to         *)
(* MaxEdges edges over ExportIds                                           *)

GoVersion == <<"g", "o", "@", "1">>
Toolchain == <<"t", "o", "o", "l", "c", "h", "a", "i", "n", "@", "1">>

ExportIds == {Temp, <<"a">>, <<"g", "o">>, GoVersion, Toolchain}

InitExport ==
    /\ pc = "present"
    /\ lines = <<>>
    /\ lineNo = 0
    /\ deps \in EdgeMappings(ExportIds, MaxEdges)
    /\ requestedPackage = <<>>
    /\ exportMode = TRUE
    /\ fetchDesc = FALSE
    /\ api = NoApi
    /\ NoTreeState
    /\ NoFetchState
    /\ output = <<>>

NextExport == PrintExport

SpecExport == InitExport /\ [][NextExport]_vars

\* The identifiers of the edge mapping d: its keys and its values
Identifiers(d) == DOMAIN d \cup UNION {Range(d[from]) : from \in DOMAIN d}

\* The identifiers of d that occur as the target of an edge
Targets(d) == UNION {Range(d[from]) : from \in DOMAIN d}

StartsWith(s, marker) == IsPrefixOf(marker, s)

IsToolchainId(s) ==
    \/ StartsWith(s, <<"g", "o", "@">>)
    \/ StartsWith(s, <<"t", "o", "o", "l", "c", "h", "a", "i", "n", "@">>)

Ascending(l) == \A i \in 1..(Len(l) - 1) : StrLess(l[i], l[i + 1])

Exported == pc = "done" /\ exportMode /\ ~fetchDesc

\* C5 as stated: printExport prints each distinct identifier of the mapping
\* that is not a toolchain identifier exactly once, in ascending order.
C5_Original ==
    Exported =>
        /\ Range(output) = {id \in Identifiers(deps) : ~IsToolchainId(id)}
        /\ Len(output) = Cardinality(Range(output))
        /\ Ascending(output)

\* C5, amended: printExport prints exactly once, in ascending order, each
\* distinct identifier of the mapping that is not a toolchain identifier,
\* except "temp" when "temp" occurs only as a key.
C5_ExportSortedUnique ==
    Exported =>
        /\ Range(output) =
              {id \in Identifiers(deps) :
                  ~IsToolchainId(id) /\ (id = Temp => Temp \in Targets(deps))}
        /\ Len(output) = Cardinality(Range(output))
        /\ Ascending(output)

\* An export of a mapping with a repeated edge and several identifiers to
\* print
C5_Witness ==
    /\ Exported
    /\ \E from \in DOMAIN deps : Len(deps[from]) > Cardinality(Range(deps[from]))
    /\ Len(output) >= 2

\* C6: no line of printExport's output begins with "go@" or "toolchain@",
\* whether the identifier is the source or the target of an edge.
C6_NoToolchainInExport ==
    (pc = "done" /\ exportMode) =>
        \A i \in 1..Len(output) : ~IsToolchainId(output[i])

\* An export of a mapping with a toolchain identifier as a key and another
\* as a value, and something to print
C6_Witness ==
    /\ pc = "done"
    /\ exportMode
    /\ \E from \in DOMAIN deps : IsToolchainId(from)
    /\ \E to \in Targets(deps) : IsToolchainId(to) /\ to \notin DOMAIN deps
    /\ output # <<>>


----------------------------------------------------------------------------
(* run from the check of the parsed mapping on: every edge mapping of up   *)
(* to MaxRunEdges edges over RunIds, every combination of -export and      *)
(* -desc, and every answer of the metadata API for each repository         *)

\* The most edges of an edge mapping given to run in the model
MaxRunEdges == 2

RepoB == GitHubPrefix \o <<"a", "/", "b">>
RepoC == GitHubPrefix \o <<"a", "/", "c", "@", "1">>

RunIds == {Temp, RepoB, RepoC}

\* The repositories the identifiers ids name
Repos(ids) ==
    {<<ExtractGitHubRepo(id).owner, ExtractGitHubRepo(id).repo>> :
        id \in {x \in ids : ExtractGitHubRepo(x).ok}}

ResponseKinds == {"unreachable", "not found", "not json", "no description", "described"}

\* The answers varied for the repository r: every kind for a/b, one
\* failure and the success for a/c
ResponseKindsOf(r) ==
    IF r[2] = <<"b">> THEN ResponseKinds ELSE {"not found", "described"}

\* The response of the given kind for the repository r
Response(kind, r) ==
    [sent        |-> kind # "unreachable",
     cause       |-> IF kind = "unreachable" THEN <<"timeout">>
                     ELSE IF kind = "not json" THEN <<"unexpected EOF">>
                     ELSE <<>>,
     status      |-> IF kind = "not found" THEN 404 ELSE StatusOK,
     decodes     |-> kind \in {"no description", "described"},
     description |-> IF kind = "described" THEN <<"about ">> \o r[2] ELSE <<>>]

\* The run may ask the API about the repository r: descriptions are
\* wanted and an identifier of the mapping names r. The answers for the
\* other repositories are not varied
Asked(r, d, wanted) ==
    /\ wanted
    /\ r \in Repos(DOMAIN d \cup UNION {Range(d[from]) : from \in DOMAIN d})

InitRun ==
    /\ pc = "checkDeps"
    /\ lines = <<>>
    /\ lineNo = 0
    /\ deps \in EdgeMappings(RunIds, MaxRunEdges) \cup {EmptyMap}
    /\ requestedPackage \in
          (IF Temp \in DOMAIN deps THEN {<<>>, GitHubPrefix \o <<"a">>} ELSE {<<>>})
    /\ exportMode \in BOOLEAN
    /\ fetchDesc \in BOOLEAN
    /\ \E kinds \in [Repos(RunIds) -> ResponseKinds] :
          /\ \A r \in Repos(RunIds) :
                /\ kinds[r] \in ResponseKindsOf(r)
                /\ Asked(r, deps, fetchDesc) \/ kinds[r] = "described"
          /\ api = [r \in Repos(RunIds) |-> Response(kinds[r], r)]
    /\ NoTreeState
    /\ NoFetchState
    /\ output = <<>>

NextRun ==
    \/ CheckDeps
    \/ SelectRoot
    \/ BuildTreeEnter
    \/ BuildTreeLoop
    \/ BuildTreeReturn
    \/ ReRoot
    \/ FetchStart
    \/ CollectChild
    \/ CollectReturn
    \/ FetchLaunch
    \/ TaskFetch
    \/ TaskLock
    \/ TaskWrite
    \/ TaskDone
    \/ FetchWait
    \/ PrintTree
    \/ PrintExport
    \/ ExportStart
    \/ ExportLaunch
    \/ ExportWait

SpecRun == InitRun /\ [][NextRun]_vars

\* Mutual exclusion: at most one goroutine is between Lock and Unlock, and
\* it is the one the mutex names
MutexHeld ==
    \A k \in DOMAIN tasks : tasks[k].pos = "write" <=> mu = k


----------------------------------------------------------------------------
(* Properties of the description enricher *)

\* fetchDescriptions was called and has returned
Enriched == fetchDesc /\ pc \in {"present", "exportLaunch", "done"} /\ tree # 0

\* The goroutines fetchDescriptions started
NodeTasks == {k \in DOMAIN tasks : k[1] = "node"}

\* C7: fetchDescriptions returns only after every goroutine it started has
\* finished and stored its node's description, whatever the interleaving;
\* so from the return on, where the presenters run, every identifier of the
\* tree has a finished task and no enrichment task is running.
C7_JoinBeforePresent ==
    Enriched =>
        /\ {nodes[n].Name : n \in Subtree(nodes, tree)} = {k[2] : k \in NodeTasks}
        /\ \A k \in NodeTasks :
              /\ tasks[k].pos = "finished"
              /\ nodes[tasks[k].n].Description # <<>>

\* fetchDescriptions has returned from three goroutines and a presenter is
\* about to run
C7_Witness ==
    /\ Enriched
    /\ pc = "present"
    /\ Cardinality(NodeTasks) = 3

\* The repository each identifier of RunIds names, <<>> for none
RepoOfId(id) ==
    IF id = RepoB THEN <<<<"a">>, <<"b">>>>
    ELSE IF id = RepoC THEN <<<<"a">>, <<"c">>>>
    ELSE <<>>

\* The fetch for id succeeds: id names a repository and the API answers
\* 200 with a JSON body whose description is not empty
FetchSucceeds(id) ==
    /\ RepoOfId(id) # <<>>
    /\ api[RepoOfId(id)].sent
    /\ api[RepoOfId(id)].status = 200
    /\ api[RepoOfId(id)].decodes
    /\ api[RepoOfId(id)].description # <<>>

Parenthesized(d) == Len(d) >= 3 /\ d[1] = "(" /\ d[Len(d)] = ")"

\* C8: whatever the outcomes of the fetches, once fetchDescriptions has
\* returned the node of each identifier whose fetch succeeded holds exactly
\* the description fetched for it, and the node of each identifier whose
\* fetch failed holds a parenthesized reason: a description is decided by
\* the outcome of its own fetch alone.
C8_FailuresIsolated ==
    Enriched =>
        \A id \in DOMAIN modules :
            IF FetchSucceeds(id)
            THEN nodes[modules[id]].Description = api[RepoOfId(id)].description
            ELSE Parenthesized(nodes[modules[id]].Description)

\* fetchDescriptions has returned with one fetch that succeeded and one
\* that the API answered with another status than 200
C8_Witness ==
    /\ Enriched
    /\ \E id \in DOMAIN modules : FetchSucceeds(id)
    /\ \E id \in DOMAIN modules :
          /\ RepoOfId(id) # <<>>
          /\ api[RepoOfId(id)].sent
          /\ api[RepoOfId(id)].status # 200

\* The Nodes of the returned tree that carry the identifier id
TreeInstances(id) == {n \in Subtree(nodes, tree) : nodes[n].Name = id}

\* C12: after fetchDescriptions returned, for each identifier of the tree
\* exactly one Node carrying it has a non-empty Description and every other
\* Node carrying it still has the empty one.
C12_OneInstanceAnnotated ==
    Enriched =>
        \A id \in {nodes[n].Name : n \in Subtree(nodes, tree)} :
            \E n \in TreeInstances(id) :
                /\ nodes[n].Description # <<>>
                /\ \A m \in TreeInstances(id) \ {n} : nodes[m].Description = <<>>

\* fetchDescriptions returned on a tree in which an identifier is carried
\* by two Nodes
C12_Witness ==
    /\ Enriched
    /\ pc = "present"
    /\ \E id \in DOMAIN deps : Cardinality(TreeInstances(id)) >= 2

\* The goroutines started for the identifier id, by fetchDescriptions and by
\* printExport
TasksOf(id) == {k \in DOMAIN tasks : k[2] = id}

\* C13: within one run with enrichment, at most one fetch task is started
\* and at most one call of fetchGitHubDescription is made per identifier.
C13_AtMostOneLookup ==
    fetchDesc =>
        /\ \A k \in DOMAIN tasks : Cardinality(TasksOf(k[2])) <= 1
        /\ \A id \in DOMAIN lookups : lookups[id] <= 1

====
